---- MODULE Spec2Model ----
(***************************************************************************)
(* Model of radiantwave-updater.py: one run of main(), step by step.       *)
(* Every external call (socket probe, subprocess, sqlite lookup) is one    *)
(* action whose response kind is chosen by the environment; the Python     *)
(* function around the call is the operator of the same name, which maps   *)
(* the response to what the function returns ("True", "False", "None"),    *)
(* to "Raise" when the exception is not caught by the function, or to      *)
(* "Hang" when the call has no timeout and never completes.                *)
(***************************************************************************)
EXTENDS Integers, Sequences, FiniteSets, TLC

VARIABLES
    pc,            \* position of the run in main() and its callees
    exitCode,      \* value returned by main(): "none", 0 or 1
    tsInstalled,   \* environment: the tailscale binary is on PATH
    backend,       \* environment: BackendState the client reports
    advHost,       \* environment: Self.HostName the client advertises
    db,            \* environment: the store at DB_PATH
    upgradable,    \* environment: package names apt lists as upgradable
    status,        \* local `status` of ensure_tailscale_connected / sync_tailscale_hostname
    new_status,    \* local `new_status` of sync_tailscale_hostname
    license_key,   \* local `license_key`
    invoked,       \* history: how many times each external call was issued
    loginArgs,     \* history: the hostname arguments given to tailscale_login
    last,          \* history: the latest external call, its response and the function's result
    res,           \* history: result of each step, by the step's position
    allOk,         \* history: every external call so far succeeded and took effect
    h              \* harness of the two-invocation check of sync_tailscale_hostname

vars == <<pc, exitCode, tsInstalled, backend, advHost, db, upgradable, status,
          new_status, license_key, invoked, loginArgs, last, res, allOk, h>>

env == <<tsInstalled, backend, advHost, db, upgradable>>

-----------------------------------------------------------------------------
(* Values *)

None == "None"                       \* Python None
NoRow == "<norow>"                   \* fetchone() returned None
RUNNING == "Running"                 \* the connected sentinel (line 256)
BackendStates == {RUNNING, "NeedsLogin"}
Keys == {"ABC123"}                   \* license keys a store may hold
Hosts == Keys \cup {"old-host"}      \* hostnames the client may advertise

\* Package names are sequences of characters, so that `in` is substring search.
PACKAGE_NAME == <<"r", "w">>
PkgNames == {PACKAGE_NAME, PACKAGE_NAME \o <<"-", "b">>, <<"o">>}
MaxUpgradable == 1                   \* at most this many packages are upgradable

Ops == {"probe", "version", "ts_install", "operator", "status", "login",
        "getkey", "refresh", "listing", "pkg_install", "restart"}

\* Calls that main() routes through pkexec (lines 141, 175, 488, 501, 512).
PkexecOps == {"ts_install", "operator", "refresh", "pkg_install", "restart"}

Steps == {"check_network", "ei_check1", "ei_install", "ei_check2", "ei_operator",
          "ensure_installed", "ec_status1", "ec_getkey", "ec_login", "ec_status2",
          "ensure_connected", "sh_getkey", "sh_status", "sh_login", "sh_status2",
          "refresh", "check", "install", "restart"}

\* Response kinds of a subprocess.run call that carries a timeout.
ProcKinds == {"ok", "nonzero", "timeout", "notfound", "oserror"}

NoStatus == [avail |-> FALSE, BackendState |-> "", selfOk |-> TRUE, HostName |-> None]

Dbs == {[exists |-> FALSE, row |-> NoRow]}
         \cup {[exists |-> TRUE, row |-> r] : r \in {NoRow, ""} \cup Keys}

-----------------------------------------------------------------------------
(* The Python functions, as maps from the response of their external call *)

\* check_network, lines 62-71
check_network(kind) == IF kind = "ok" THEN "True" ELSE "False"

\* run_command, lines 74-111
run_command(kind) == IF kind = "ok" THEN "True" ELSE "False"

\* is_tailscale_installed, lines 114-132: no timeout; only FileNotFoundError
\* and CalledProcessError are caught.
is_tailscale_installed(kind) ==
    CASE kind = "ok"       -> "True"
      [] kind = "notfound" -> "False"
      [] kind = "nonzero"  -> "False"
      [] kind = "oserror"  -> "Raise"
      [] kind = "hang"     -> "Hang"

\* install_tailscale, lines 135-167: only TimeoutExpired and
\* CalledProcessError are caught.
install_tailscale(kind) ==
    CASE kind = "ok"       -> "True"
      [] kind = "nonzero"  -> "False"
      [] kind = "timeout"  -> "False"
      [] kind = "notfound" -> "Raise"
      [] kind = "oserror"  -> "Raise"

\* set_tailscale_operator, lines 170-194
set_tailscale_operator(kind) == IF kind = "ok" THEN "True" ELSE "False"

\* tailscale_login, lines 266-308
tailscale_login(kind) == IF kind = "ok" THEN "True" ELSE "False"

\* get_tailscale_status, lines 197-243: the dict, or None.
StatusKinds == ProcKinds \cup {"badjson", "nondict", "selfnull", "nokeys"}

get_tailscale_status(kind) ==
    CASE kind = "ok"       -> [avail |-> TRUE, BackendState |-> backend,
                               selfOk |-> TRUE, HostName |-> advHost]
      [] kind = "selfnull" -> [avail |-> TRUE, BackendState |-> backend,
                               selfOk |-> FALSE, HostName |-> None]
      [] kind = "nokeys"   -> [avail |-> TRUE, BackendState |-> "",
                               selfOk |-> TRUE, HostName |-> None]
      [] OTHER             -> NoStatus

\* is_tailscale_logged_in, lines 246-263 (always called with a status argument)
is_tailscale_logged_in(st) ==
    IF ~st.avail THEN "False"
    ELSE IF st.BackendState = RUNNING THEN "True" ELSE "False"

\* get_current_tailscale_hostname, lines 311-321: status.get("Self", {}) is
\* None when the key holds null, and None.get raises AttributeError.
get_current_tailscale_hostname(st) ==
    IF ~st.avail THEN None
    ELSE IF ~st.selfOk THEN "Raise"
    ELSE st.HostName

\* Responses of the store lookup.  DB_PATH.exists() (line 329) stands outside
\* the try block: when stat() is denied, pathlib re-raises the error up to
\* Python 3.13 ("stat_raises") and reports the file as missing in later
\* versions ("stat_false").
KeyKinds == {"ok", "sqlerror", "stat_raises", "stat_false"}

\* get_license_key, lines 324-349
get_license_key(kind) ==
    IF kind = "stat_raises" THEN "Raise"
    ELSE IF kind = "stat_false" THEN None
    ELSE IF ~db.exists THEN None
    ELSE IF kind = "sqlerror" THEN None
    ELSE IF db.row # NoRow /\ db.row # "" THEN db.row
    ELSE None

\* `PACKAGE_NAME in result.stdout`, line 448: substring containment.
Contains(text, name) ==
    \E i \in 1..(Len(text) - Len(name) + 1) :
        SubSeq(text, i, i + Len(name) - 1) = name

\* Mutant: a listing command that exits non-zero counts as "no upgrade".
check_for_upgrade_checking_exit(kind, listed) ==
    IF kind = "ok" /\ (\E p \in listed : Contains(p, PACKAGE_NAME)) THEN "True" ELSE "False"

\* check_for_upgrade, lines 434-457: the return code is not looked at.
check_for_upgrade(kind, listed) ==
    IF kind \in {"ok", "nonzero"}
    THEN IF \E p \in listed : Contains(p, PACKAGE_NAME) THEN "True" ELSE "False"
    ELSE "False"

-----------------------------------------------------------------------------
(* Bookkeeping *)

\* An external call: out is what it wrote to stdout (kept for the listing
\* only) and effective whether an exit code 0 came with the command's effect.
\* `tailscale version` answering "not found" for an absent client counts as
\* a call that worked.
CallX(op, kind, ret, out, effective) ==
    /\ invoked' = [invoked EXCEPT ![op] = @ + 1]
    /\ last' = [op |-> op, kind |-> kind, ret |-> ret, out |-> out]
    /\ allOk' = (allOk /\ effective
                  /\ (kind = "ok" \/ (op = "version" /\ kind = "notfound")))

Call(op, kind, ret) == CallX(op, kind, ret, {}, TRUE)

Record(step, r) == res' = [res EXCEPT ![step] = r]

Return(code) == pc' = "done" /\ exitCode' = code

Goto(l) ==
    CASE l = "return0" -> Return(0)
      [] l = "return1" -> Return(1)
      [] l = "Raise"   -> pc' = "crashed" /\ UNCHANGED exitCode
      [] l = "Hang"    -> pc' = "hung" /\ UNCHANGED exitCode
      [] OTHER         -> pc' = l /\ UNCHANGED exitCode

Terminal == {"done", "crashed", "hung", "sync_returned"}

-----------------------------------------------------------------------------
(* Control flow of main() and of the composite operations.  A composite      *)
(* operation's step yields the next position, or "ret_True" / "ret_False"    *)
(* when the composite returns there.                                         *)

\* Mutant: the probe's result is ignored.
main_after_network_ignored(r) == "ei_check1"

\* main, lines 468-470
main_after_network(r) == IF r = "True" THEN "ei_check1" ELSE "return0"

\* Mutant: the overlay steps after the installation check are skipped.
main_after_ensure_installed_skipping(r) == "refresh"

\* main, lines 473-481
main_after_ensure_installed(r) == IF r = "True" THEN "ec_status1" ELSE "refresh"

\* Mutant: the hostname sync runs whether or not the client is connected.
main_after_ensure_connected_ignored(r) == "sh_getkey"

main_after_ensure_connected(r) == IF r = "True" THEN "sh_getkey" ELSE "refresh"

\* Mutant: the upgrade check is skipped after a successful refresh.
main_after_refresh_skipping_check(r) == IF r = "True" THEN "install" ELSE "return1"

\* Mutant: a failed refresh is logged but the run goes on.
main_after_refresh_continuing(r) == "check"

\* main, lines 488-490
main_after_refresh(r) == IF r = "True" THEN "check" ELSE "return1"

\* Mutant: the install runs whatever the upgrade check returned.
main_after_check_ignored(r) == "install"

\* main, lines 493-495
main_after_check(r) == IF r = "True" THEN "install" ELSE "return0"

\* Mutant: a failed install is logged but the restart still runs.
main_after_install_continuing(r) == "restart"

\* main, lines 498-504
main_after_install(r) == IF r = "True" THEN "restart" ELSE "return1"

\* main, lines 509-521
main_after_restart(r) == IF r = "True" THEN "return0" ELSE "return1"

\* ensure_tailscale_installed, lines 356-357
ei_after_check1(r) == IF r = "True" THEN "ret_True" ELSE "ei_install"

\* ensure_tailscale_installed, lines 361-362
ei_after_install(r) == IF r = "True" THEN "ei_check2" ELSE "ret_False"

\* Mutant: a failed verification retries the installation.
ei_after_check2_retrying(r) == IF r = "True" THEN "ei_operator" ELSE "ei_install"

\* ensure_tailscale_installed, lines 365-367
ei_after_check2(r) == IF r = "True" THEN "ei_operator" ELSE "ret_False"

\* Mutant: a failed operator grant fails ensure_tailscale_installed.
ei_after_operator_strict(r) == IF r = "True" THEN "ret_True" ELSE "ret_False"

\* ensure_tailscale_installed, lines 370-373
ei_after_operator(r) == "ret_True"

\* ensure_tailscale_connected, lines 382, 398-399
ec_after_status1(loggedIn) == IF loggedIn = "True" THEN "ret_True" ELSE "ec_getkey"

\* ensure_tailscale_connected, lines 388-390
ec_after_login(r) == IF r = "True" THEN "ec_status2" ELSE "ret_False"

\* ensure_tailscale_connected, lines 393-399
ec_after_status2(loggedIn) == IF loggedIn = "True" THEN "ret_True" ELSE "ret_False"

\* ensure_tailscale_connected, lines 386-388
ec_after_getkey(key) == IF key = "Raise" THEN "Raise" ELSE "ec_login"

\* sync_tailscale_hostname, lines 406-410 (`not license_key`)
sh_after_getkey(key) ==
    IF key = "Raise" THEN "Raise"
    ELSE IF key = None \/ key = "" THEN "ret" ELSE "sh_status"

\* Mutant: the comparison with the key is dropped and the login always runs.
sh_after_status_always_login(current, key) ==
    IF current = "Raise" THEN "Raise" ELSE "sh_login"

\* sync_tailscale_hostname, lines 418-422
sh_after_status(current, key) ==
    IF current = "Raise" THEN "Raise"
    ELSE IF current = key THEN "ret" ELSE "sh_login"

\* sync_tailscale_hostname, lines 424-431
sh_after_login(r) == IF r = "True" THEN "sh_status2" ELSE "ret"

\* sync_tailscale_hostname, lines 427-429
sh_after_status2(new_hostname) == IF new_hostname = "Raise" THEN "Raise" ELSE "ret"

\* The caller sync_tailscale_hostname returns to: main (line 483), or the
\* caller that invokes it twice in a row.
SyncReturnPc == IF h.round = 0 THEN "refresh" ELSE "sync_returned"

\* A step of ensure_tailscale_installed ends: r is the step's result and
\* next the position it yields.
EIStep(step, r, next) ==
    IF r \in {"Raise", "Hang"}
    THEN Record(step, r) /\ Goto(r)
    ELSE IF next \in {"ret_True", "ret_False"}
    THEN LET v == IF next = "ret_True" THEN "True" ELSE "False" IN
         /\ res' = [res EXCEPT ![step] = r, !["ensure_installed"] = v]
         /\ Goto(main_after_ensure_installed(v))
    ELSE Record(step, r) /\ Goto(next)

ECStep(step, r, next) ==
    IF next \in {"ret_True", "ret_False"}
    THEN LET v == IF next = "ret_True" THEN "True" ELSE "False" IN
         /\ res' = [res EXCEPT ![step] = r, !["ensure_connected"] = v]
         /\ Goto(main_after_ensure_connected(v))
    ELSE Record(step, r) /\ Goto(next)

SHStep(step, r, next) ==
    /\ Record(step, r)
    /\ Goto(IF next = "ret" THEN SyncReturnPc ELSE next)

\* What tailscale_login does to the client when `tailscale up` exits 0 and
\* takes effect.
LoginEffect(kind, eff, hostname) ==
    IF kind = "ok" /\ eff
    THEN /\ backend' = RUNNING
         /\ advHost' = IF hostname # None THEN hostname ELSE advHost
    ELSE UNCHANGED <<backend, advHost>>

VersionKinds == IF tsInstalled THEN {"ok", "nonzero", "oserror", "hang"} ELSE {"notfound"}

StatusRet(st) == IF st.avail THEN "Status" ELSE None

-----------------------------------------------------------------------------
(* Actions *)

\* main line 468: check_network()
CheckNetwork ==
    /\ pc = "check_network"
    /\ \E kind \in {"ok", "refused", "timeout"} :
         LET r == check_network(kind) IN
         /\ Call("probe", kind, r)
         /\ Record("check_network", r)
         /\ Goto(main_after_network(r))
    /\ UNCHANGED <<env, status, new_status, license_key, loginArgs, h>>

\* ensure_tailscale_installed line 356: is_tailscale_installed()
IsInstalled ==
    /\ pc = "ei_check1"
    /\ \E kind \in VersionKinds :
         LET r == is_tailscale_installed(kind) IN
         /\ Call("version", kind, r)
         /\ EIStep("ei_check1", r, ei_after_check1(r))
    /\ UNCHANGED <<env, status, new_status, license_key, loginArgs, h>>

\* ensure_tailscale_installed line 361: install_tailscale()
InstallTailscale ==
    /\ pc = "ei_install"
    /\ \E kind \in ProcKinds, eff \in BOOLEAN :
         LET r == install_tailscale(kind) IN
         /\ CallX("ts_install", kind, r, {}, eff)
         /\ tsInstalled' = (tsInstalled \/ (kind = "ok" /\ eff))
         /\ EIStep("ei_install", r, ei_after_install(r))
    /\ UNCHANGED <<backend, advHost, db, upgradable, status, new_status,
                   license_key, loginArgs, h>>

\* ensure_tailscale_installed line 365: is_tailscale_installed() again
VerifyInstalled ==
    /\ pc = "ei_check2"
    /\ \E kind \in VersionKinds :
         LET r == is_tailscale_installed(kind) IN
         /\ Call("version", kind, r)
         /\ EIStep("ei_check2", r, ei_after_check2(r))
    /\ UNCHANGED <<env, status, new_status, license_key, loginArgs, h>>

\* ensure_tailscale_installed line 370: set_tailscale_operator()
SetOperator ==
    /\ pc = "ei_operator"
    /\ \E kind \in ProcKinds :
         LET r == set_tailscale_operator(kind) IN
         /\ Call("operator", kind, r)
         /\ EIStep("ei_operator", r, ei_after_operator(r))
    /\ UNCHANGED <<env, status, new_status, license_key, loginArgs, h>>

\* ensure_tailscale_connected lines 380-382
ConnStatus ==
    /\ pc = "ec_status1"
    /\ \E kind \in StatusKinds :
         LET st == get_tailscale_status(kind)
             li == is_tailscale_logged_in(st) IN
         /\ Call("status", kind, StatusRet(st))
         /\ status' = st
         /\ ECStep("ec_status1", li, ec_after_status1(li))
    /\ UNCHANGED <<env, new_status, license_key, loginArgs, h>>

\* ensure_tailscale_connected line 386: get_license_key()
ConnGetKey ==
    /\ pc = "ec_getkey"
    /\ \E kind \in KeyKinds :
         LET k == get_license_key(kind) IN
         /\ Call("getkey", kind, k)
         /\ license_key' = IF k = "Raise" THEN license_key ELSE k
         /\ Record("ec_getkey", k)
         /\ Goto(ec_after_getkey(k))
    /\ UNCHANGED <<env, status, new_status, loginArgs, h>>

\* ensure_tailscale_connected line 388: tailscale_login(hostname=license_key)
ConnLogin ==
    /\ pc = "ec_login"
    /\ \E kind \in ProcKinds, eff \in BOOLEAN :
         LET r == tailscale_login(kind) IN
         /\ CallX("login", kind, r, {}, eff)
         /\ loginArgs' = loginArgs \cup {license_key}
         /\ LoginEffect(kind, eff, license_key)
         /\ ECStep("ec_login", r, ec_after_login(r))
    /\ UNCHANGED <<tsInstalled, db, upgradable, status, new_status, license_key, h>>

\* ensure_tailscale_connected lines 393-394
ConnVerify ==
    /\ pc = "ec_status2"
    /\ \E kind \in StatusKinds :
         LET st == get_tailscale_status(kind)
             li == is_tailscale_logged_in(st) IN
         /\ Call("status", kind, StatusRet(st))
         /\ status' = st
         /\ ECStep("ec_status2", li, ec_after_status2(li))
    /\ UNCHANGED <<env, new_status, license_key, loginArgs, h>>

\* sync_tailscale_hostname lines 406-410
SyncGetKey ==
    /\ pc = "sh_getkey"
    /\ \E kind \in KeyKinds :
         LET k == get_license_key(kind) IN
         /\ Call("getkey", kind, k)
         /\ license_key' = IF k = "Raise" THEN license_key ELSE k
         /\ SHStep("sh_getkey", k, sh_after_getkey(k))
    /\ UNCHANGED <<env, status, new_status, loginArgs, h>>

\* sync_tailscale_hostname lines 412-422
SyncStatus ==
    /\ pc = "sh_status"
    /\ \E kind \in StatusKinds :
         LET st == get_tailscale_status(kind)
             current == get_current_tailscale_hostname(st) IN
         /\ Call("status", kind, StatusRet(st))
         /\ status' = st
         /\ SHStep("sh_status", current, sh_after_status(current, license_key))
    /\ UNCHANGED <<env, new_status, license_key, loginArgs, h>>

\* sync_tailscale_hostname line 424: tailscale_login(hostname=license_key)
SyncLogin ==
    /\ pc = "sh_login"
    /\ \E kind \in ProcKinds, eff \in BOOLEAN :
         LET r == tailscale_login(kind) IN
         /\ CallX("login", kind, r, {}, eff)
         /\ loginArgs' = loginArgs \cup {license_key}
         /\ LoginEffect(kind, eff, license_key)
         /\ SHStep("sh_login", r, sh_after_login(r))
    /\ UNCHANGED <<tsInstalled, db, upgradable, status, new_status, license_key, h>>

\* sync_tailscale_hostname lines 427-429
SyncVerify ==
    /\ pc = "sh_status2"
    /\ \E kind \in StatusKinds :
         LET st == get_tailscale_status(kind)
             new_hostname == get_current_tailscale_hostname(st) IN
         /\ Call("status", kind, StatusRet(st))
         /\ new_status' = st
         /\ SHStep("sh_status2", new_hostname, sh_after_status2(new_hostname))
    /\ UNCHANGED <<env, status, license_key, loginArgs, h>>

\* main line 488: run_command(["apt", "update"], ..., use_pkexec=True)
RefreshPackageLists ==
    /\ pc = "refresh"
    /\ \E kind \in ProcKinds :
         LET r == run_command(kind) IN
         /\ Call("refresh", kind, r)
         /\ Record("refresh", r)
         /\ Goto(main_after_refresh(r))
    /\ UNCHANGED <<env, status, new_status, license_key, loginArgs, h>>

\* main line 493: check_for_upgrade().  A command that exits non-zero may
\* or may not have written its listing.
CheckForUpgrade ==
    /\ pc = "check"
    /\ \E kind \in ProcKinds, wrote \in BOOLEAN :
         LET listed == IF kind = "ok" \/ (kind = "nonzero" /\ wrote)
                       THEN upgradable ELSE {}
             r == check_for_upgrade(kind, listed) IN
         /\ CallX("listing", kind, r, listed, TRUE)
         /\ Record("check", r)
         /\ Goto(main_after_check(r))
    /\ UNCHANGED <<env, status, new_status, license_key, loginArgs, h>>

\* main line 498: run_command(["apt", "install", "--only-upgrade", ...])
InstallUpgrade ==
    /\ pc = "install"
    /\ \E kind \in ProcKinds :
         LET r == run_command(kind) IN
         /\ Call("pkg_install", kind, r)
         /\ upgradable' = IF kind = "ok" THEN upgradable \ {PACKAGE_NAME} ELSE upgradable
         /\ Record("install", r)
         /\ Goto(main_after_install(r))
    /\ UNCHANGED <<tsInstalled, backend, advHost, db, status, new_status,
                   license_key, loginArgs, h>>

\* main line 509: run_command(["systemctl", "restart", "getty@tty1.service"])
RestartService ==
    /\ pc = "restart"
    /\ \E kind \in ProcKinds :
         LET r == run_command(kind) IN
         /\ Call("restart", kind, r)
         /\ Record("restart", r)
         /\ Goto(main_after_restart(r))
    /\ UNCHANGED <<env, status, new_status, license_key, loginArgs, h>>

\* A caller invokes sync_tailscale_hostname() a second time, right after
\* the first invocation returned.
SyncAgain ==
    /\ pc = "sync_returned"
    /\ h.round = 1
    /\ pc' = "sh_getkey"
    /\ h' = [h EXCEPT !.round = 2, !.loginsBefore = invoked["login"]]
    /\ UNCHANGED <<exitCode, env, status, new_status, license_key, invoked,
                   loginArgs, last, res, allOk>>

-----------------------------------------------------------------------------
(* Specifications *)

EnvInit ==
    /\ tsInstalled \in BOOLEAN
    /\ backend \in BackendStates
    /\ advHost \in Hosts
    /\ db \in Dbs
    /\ upgradable \in {u \in SUBSET PkgNames : Cardinality(u) <= MaxUpgradable}

LocalsInit ==
    /\ exitCode = "none"
    /\ status = NoStatus
    /\ new_status = NoStatus
    /\ license_key = None
    /\ invoked = [op \in Ops |-> 0]
    /\ loginArgs = {}
    /\ last = [op |-> "none", kind |-> "none", ret |-> "none", out |-> {}]
    /\ allOk = TRUE
    /\ res = [s \in Steps |-> "none"]

\* One run of main().
Init ==
    /\ pc = "check_network"
    /\ EnvInit
    /\ LocalsInit
    /\ h = [round |-> 0, loginsBefore |-> 0, backend0 |-> backend, advHost0 |-> advHost,
            tsInstalled0 |-> tsInstalled, upgradable0 |-> upgradable]

Next ==
    \/ CheckNetwork
    \/ IsInstalled
    \/ InstallTailscale
    \/ VerifyInstalled
    \/ SetOperator
    \/ ConnStatus
    \/ ConnGetKey
    \/ ConnLogin
    \/ ConnVerify
    \/ SyncGetKey
    \/ SyncStatus
    \/ SyncLogin
    \/ SyncVerify
    \/ RefreshPackageLists
    \/ CheckForUpgrade
    \/ InstallUpgrade
    \/ RestartService

Spec == Init /\ [][Next]_vars

\* sync_tailscale_hostname() invoked twice consecutively on a device whose
\* client is installed.
InitSync ==
    /\ pc = "sh_getkey"
    /\ EnvInit
    /\ tsInstalled
    /\ upgradable = {}
    /\ LocalsInit
    /\ h = [round |-> 1, loginsBefore |-> 0, backend0 |-> backend, advHost0 |-> advHost,
            tsInstalled0 |-> tsInstalled, upgradable0 |-> upgradable]

NextSync ==
    \/ SyncGetKey
    \/ SyncStatus
    \/ SyncLogin
    \/ SyncVerify
    \/ SyncAgain

SpecSync == InitSync /\ [][NextSync]_vars

-----------------------------------------------------------------------------
(* Properties *)

OthersInvoked == {op \in Ops \ {"probe"} : invoked[op] > 0}

\* C1: when the connectivity probe fails, the run ends at once with exit
\* code 0 and no other external call (overlay, package manager, service
\* restart, pkexec) is ever issued.
C1_ProbeFailureIsNoop ==
    /\ (last.op = "probe" /\ last.kind # "ok") => res["check_network"] = "False"
    /\ res["check_network"] = "False" =>
          /\ pc = "done"
          /\ exitCode = 0
          /\ OthersInvoked = {}

C1_Witness ==
    /\ res["check_network"] = "False"
    /\ last.kind = "timeout"
    /\ pc = "done"

\* C2: the upgrade check is issued only after the index refresh completed,
\* and the package install only after the upgrade check completed, in the
\* same run.
C2_RefreshCheckInstallOrder ==
    [][ /\ invoked'["listing"] > invoked["listing"] =>
              (invoked["refresh"] > 0 /\ res["refresh"] # "none")
        /\ invoked'["pkg_install"] > invoked["pkg_install"] =>
              (invoked["listing"] > 0 /\ res["check"] # "none"
                 /\ invoked["refresh"] > 0 /\ res["refresh"] # "none") ]_vars

C2_Witness ==
    /\ invoked["pkg_install"] = 1
    /\ invoked["listing"] = 1
    /\ invoked["refresh"] = 1

\* C3 (as claimed): once refresh, upgrade check and install have succeeded,
\* the run ends with exit code 0 whatever the service restart returns.
C3_RestartFailureIsSoft ==
    (pc = "done" /\ res["refresh"] = "True" /\ res["check"] = "True"
       /\ res["install"] = "True") => exitCode = 0

\* C4 (as claimed): a run whose probe succeeded does not end without having
\* invoked the index refresh, whatever the overlay steps returned.
C4_OverlayNeverAborts ==
    (pc \in {"done", "crashed"} /\ res["check_network"] = "True")
        => invoked["refresh"] > 0

\* C5 (as claimed): no exception propagates out of main.
C5_NoExceptionEscapes == pc # "crashed"

\* C6: when the index refresh fails the run ends with exit code 1 and
\* neither the upgrade check, the install nor the restart is issued.
C6_RefreshFailureIsFatal ==
    /\ (last.op = "refresh" /\ last.kind # "ok") => res["refresh"] = "False"
    /\ res["refresh"] = "False" =>
          /\ pc = "done"
          /\ exitCode = 1
          /\ invoked["listing"] = 0
          /\ invoked["pkg_install"] = 0
          /\ invoked["restart"] = 0

C6_Witness ==
    /\ res["refresh"] = "False"
    /\ last.op = "refresh"
    /\ last.kind = "nonzero"

\* C7: when check_for_upgrade returns False the run ends with exit code 0
\* and neither the install nor the restart is issued, store present or not.
C7_NoUpgradeIsNoop ==
    res["check"] = "False" =>
        /\ pc = "done"
        /\ exitCode = 0
        /\ invoked["pkg_install"] = 0
        /\ invoked["restart"] = 0

C7_Witness ==
    /\ res["check"] = "False"
    /\ last.kind = "ok"
    /\ ~db.exists
    /\ PACKAGE_NAME \notin upgradable

\* C8 (as claimed): with the store and the remote status unchanged, the
\* second of two consecutive sync_tailscale_hostname calls issues no login.
C8_SecondSyncNeverLogsIn ==
    (h.round = 2 /\ backend = h.backend0 /\ advHost = h.advHost0)
        => invoked["login"] = h.loginsBefore

\* C8 (amended): the second of two consecutive calls issues a login only
\* when the key is present and the hostname that call observed (None when
\* the status is unavailable) differs from the key.
C8_SecondSyncLogsInOnlyOnMismatch ==
    (h.round = 2 /\ invoked["login"] > h.loginsBefore) =>
        /\ license_key # None
        /\ get_current_tailscale_hostname(status) # license_key
        /\ res["sh_status"] # license_key

C8_Witness ==
    /\ h.round = 2
    /\ pc = "sync_returned"
    /\ h.loginsBefore = 1
    /\ invoked["login"] = 1
    /\ res["sh_status"] = license_key

\* C9: ensure_tailscale_installed returns True exactly when the client was
\* already installed, or the install succeeded and the re-check found it;
\* the operator grant's result plays no part.
C9_EnsureInstalledResult ==
    res["ensure_installed"] # "none" =>
        (res["ensure_installed"] = "True" <=>
            \/ res["ei_check1"] = "True"
            \/ (res["ei_install"] = "True" /\ res["ei_check2"] = "True"))

C9_Witness ==
    /\ res["ei_check1"] = "False"
    /\ res["ei_install"] = "True"
    /\ res["ei_check2"] = "True"
    /\ res["ei_operator"] = "False"
    /\ res["ensure_installed"] = "True"

\* What each function returns when its external call times out.
RetOnTimeout(op) ==
    CASE op = "ts_install"  -> install_tailscale("timeout")
      [] op = "operator"    -> set_tailscale_operator("timeout")
      [] op = "status"      -> StatusRet(get_tailscale_status("timeout"))
      [] op = "login"       -> tailscale_login("timeout")
      [] op = "listing"     -> check_for_upgrade("timeout", {})
      [] OTHER              -> run_command("timeout")

\* C10 (as claimed): a call that exits non-zero makes its function return
\* what a timeout of that call makes it return.
C10_TimeoutSameAsNonZero ==
    (last.kind = "nonzero" /\ last.op # "version") => last.ret = RetOnTimeout(last.op)

\* The external commands that change the device.
MutatingOps == {"ts_install", "operator", "login", "refresh", "pkg_install", "restart"}

\* How many of the two login call sites (lines 388 and 424) have run.
LoginSitesRun ==
    (IF res["ec_login"] # "none" THEN 1 ELSE 0) + (IF res["sh_login"] # "none" THEN 1 ELSE 0)

\* C11 (as claimed): every mutating command is issued at most once per run.
C11_EachMutatingCommandAtMostOnce ==
    \A op \in MutatingOps : invoked[op] <= 1

\* C11 (amended): install, operator grant, index refresh, package install
\* and restart are issued at most once per run; the login is issued at most
\* once by ensure_tailscale_connected and at most once by
\* sync_tailscale_hostname, so at most twice.
C11_NoRetryPerCallSite ==
    /\ \A op \in MutatingOps \ {"login"} : invoked[op] <= 1
    /\ invoked["login"] = LoginSitesRun
    /\ invoked["login"] <= 2

C11_Witness ==
    /\ invoked["login"] = 2
    /\ res["ec_login"] = "True"
    /\ res["sh_login"] = "False"
    /\ pc = "done"

\* sync_tailscale_hostname has been entered and has left its body (by
\* returning or by raising).
SyncEnded ==
    /\ res["sh_getkey"] # "none"
    /\ pc \notin {"sh_getkey", "sh_status", "sh_login", "sh_status2"}

\* Line 415 logged "Current hostname": get_current_tailscale_hostname returned.
LoggedBefore == res["sh_status"] \notin {"none", "Raise"}

\* Line 429 logged "Verified new hostname".
LoggedAfter == res["sh_status2"] \notin {"none", "Raise"}

\* The key is present and the hostname the status advertises, None when
\* unavailable, differs from it.
HostnameMismatch ==
    /\ license_key # None
    /\ res["sh_status"] # "none"
    /\ (~status.avail \/ ~status.selfOk \/ status.HostName # license_key)

\* C12 (as claimed): sync_tailscale_hostname issues a login exactly when
\* the key is present and the advertised hostname differs from it, with the
\* key as hostname argument, and then logs the hostname before and after
\* (stated for the invocations that return).
C12_SyncLoginAndLogs ==
    (SyncEnded /\ pc # "crashed") =>
        /\ (res["sh_login"] # "none") <=> HostnameMismatch
        /\ HostnameMismatch => (license_key \in loginArgs /\ LoggedBefore /\ LoggedAfter)

\* C13 (as claimed): get_license_key returns the stored value when it is a
\* non-empty string and None in every other case (file missing, row
\* missing, value empty, any storage error), and never raises.
C13_GetIdentityAbsentOrValue ==
    last.op = "getkey" =>
        last.ret = (IF last.kind = "ok" /\ db.exists /\ db.row \notin {NoRow, ""}
                    THEN db.row ELSE None)

\* ensure_tailscale_connected has been entered and has left its body (by
\* returning or by raising).
ConnEnded ==
    /\ res["ec_status1"] # "none"
    /\ pc \notin {"ec_getkey", "ec_login", "ec_status2"}

\* C14 (as claimed): when the first status reports Running,
\* ensure_tailscale_connected neither logs in nor reads the store and
\* returns True; otherwise it issues one login with the key (or no hostname)
\* and returns True exactly when the login succeeded and the second status
\* reports Running.
C14_EnsureConnectedIdempotent ==
    ConnEnded =>
        /\ res["ec_status1"] = "True" =>
              /\ res["ec_getkey"] = "none"
              /\ res["ec_login"] = "none"
              /\ res["ensure_connected"] = "True"
        /\ res["ec_status1"] = "False" =>
              /\ res["ec_login"] # "none"
              /\ res["ec_getkey"] \in loginArgs
              /\ res["ensure_connected"] = "True" <=>
                    (res["ec_login"] = "True" /\ res["ec_status2"] = "True")

\* C15 (as claimed): no step of the run blocks forever on its external
\* call, so the run always reaches an exit code.
C15_NoStepBlocksForever == pc # "hung"

\* C16: the restart is issued only after the install returned True in the
\* same run; a failed install ends the run with exit code 1 and no restart.
C16_RestartOnlyAfterInstall ==
    /\ invoked["restart"] > 0 => res["install"] = "True"
    /\ (last.op = "pkg_install" /\ last.kind # "ok") => res["install"] = "False"
    /\ res["install"] = "False" =>
          /\ pc = "done"
          /\ exitCode = 1
          /\ invoked["restart"] = 0

C16_Witness ==
    /\ res["install"] = "False"
    /\ last.op = "pkg_install"
    /\ last.kind = "timeout"
    /\ pc = "done"

\* C17: ensure_tailscale_connected, and so every status query and login,
\* runs only after ensure_tailscale_installed returned True, and
\* sync_tailscale_hostname only after ensure_tailscale_connected returned
\* True, that is after a status of this run reported Running.
C17_OverlayStepsGated ==
    /\ (res["ec_status1"] # "none" \/ invoked["status"] > 0 \/ invoked["login"] > 0
          \/ pc \in {"ec_status1", "ec_getkey", "ec_login", "ec_status2"})
         => res["ensure_installed"] = "True"
    /\ (res["sh_getkey"] # "none" \/ pc \in {"sh_getkey", "sh_status", "sh_login", "sh_status2"})
         => /\ res["ensure_connected"] = "True"
            /\ (res["ec_status1"] = "True" \/ res["ec_status2"] = "True")

C17_Witness ==
    /\ res["sh_getkey"] # "none"
    /\ res["ec_status1"] = "False"
    /\ res["ec_status2"] = "True"
    /\ res["ei_check2"] = "True"

\* The identity the store holds, None when it holds none (lines 329-346).
Identity == IF db.exists /\ db.row \notin {NoRow, ""} THEN db.row ELSE None

\* Membership state of the device: 0 NotInstalled, 1 Installed/LoggedOut,
\* 2 LoggedIn(WrongIdentity), 3 LoggedIn(CorrectIdentity).
Membership ==
    IF ~tsInstalled THEN 0
    ELSE IF backend # RUNNING THEN 1
    ELSE IF advHost # Identity THEN 2
    ELSE 3

\* C18: with the identity present and every call so far succeeding and
\* taking effect, the device is installed, connected and advertises the
\* identity when the index refresh is about to run, from whichever
\* membership state the run started; and no step of a run moves the
\* membership state backwards.
C18_RunConvergesMembership ==
    /\ [](( pc = "refresh" /\ allOk /\ Identity # None) => Membership = 3)
    /\ [][Identity # None => Membership' >= Membership]_vars

C18_Witness ==
    /\ pc = "refresh"
    /\ allOk
    /\ Identity # None
    /\ ~h.tsInstalled0
    /\ h.backend0 # RUNNING
    /\ h.advHost0 # Identity
    /\ Membership = 3

\* The run started on a converged device: client installed, backend
\* Running, advertised hostname equal to the identity, and no upgrade of
\* PACKAGE_NAME pending.
ConvergedAtStart ==
    /\ h.tsInstalled0
    /\ h.backend0 = RUNNING
    /\ Identity # None
    /\ h.advHost0 = Identity
    /\ PACKAGE_NAME \notin h.upgradable0

\* C19 (as claimed): a run on a converged device whose calls all succeed
\* issues no overlay install, operator grant, login, package install or
\* restart, and ends with exit code 0.
C19_ConvergedRunIsNoop ==
    (ConvergedAtStart /\ allOk) =>
        /\ \A op \in {"ts_install", "operator", "login", "pkg_install", "restart"} :
              invoked[op] = 0
        /\ pc = "done" => exitCode = 0

\* C20: when the listing command times out or cannot be run,
\* check_for_upgrade returns False and the run ends with exit code 0 without
\* an install, even with an upgrade pending; when the command ran, the
\* result is True exactly when the package name occurs in what it wrote,
\* whatever its exit code.
C20_FailedQueryMeansNoUpgrade ==
    last.op = "listing" =>
        /\ last.kind \in {"timeout", "notfound", "oserror"} =>
              /\ last.ret = "False"
              /\ pc = "done"
              /\ exitCode = 0
              /\ invoked["pkg_install"] = 0
        /\ last.kind \in {"ok", "nonzero"} =>
              (last.ret = "True" <=> \E p \in last.out : Contains(p, PACKAGE_NAME))
        /\ last.ret = res["check"]

C20_Witness ==
    /\ last.op = "listing"
    /\ last.kind = "timeout"
    /\ PACKAGE_NAME \in upgradable
    /\ pc = "done"
    /\ exitCode = 0

====
